---------------------------- MODULE Spec2Model ----------------------------
(***************************************************************************)
(* Chunked file integrity and reconstruction of the modpack updater:       *)
(*   mod_split.py    split_large_file, main   (manifest build)             *)
(*   mod_unsplit.py  validate_chunks, restore_split_file, main             *)
(*   util.py         calculate_file_hash, get_file_size_bytes              *)
(* The disk is a function from paths to byte sequences.  Sizes are scaled: *)
(* one model byte stands for a block of the real file, so that whole file  *)
(* contents can be enumerated.  I/O failures are inputs of the operations: *)
(* every call receives the set F of the places where its I/O fails.        *)
(***************************************************************************)
EXTENDS Integers, Sequences, FiniteSets, TLC

VARIABLES fs, config, splitLog, call, stats, last, faultsUsed, tampersUsed,
          names, drift, deploy

vars == <<fs, config, splitLog, call, stats, last, faultsUsed, tampersUsed,
          names, drift, deploy>>

----------------------------------------------------------------------------
(* Bounds of the model *)

\* longest file content, in bytes
MaxLen == 4
\* disturbances over one behaviour: I/O failures injected into the calls
\* and modifications of the disk by the environment
MaxDisturb == 2
\* most chunks of one split whose fragment names are generated
MaxChunks == 120
\* longest content of the file whose manifest record is reordered
MaxOrderLen == 6
\* the longest list of mirrors of the updater
MaxMirrors == 3
\* the slowest response of a mirror to the speed test, in ticks
MaxTime == 2
\* the most clicks on the update button
MaxRuns == 2

(* Program constants (scaled) *)

\* mod_split.py:15, CHUNK_SIZE = 30 * MB_TO_BYTES, scaled to 2 bytes
CHUNK_SIZE == 2
\* mod_split.py:13, SPLIT_THRESHOLD = 50 * MB_TO_BYTES, scaled to 3 bytes
SPLIT_THRESHOLD == 3
\* Python's None as returned by the size and hash helpers on failure
None == -1

Byte == {0, 1}
FileNames == <<"a.jar", "b.jar">>
ModDir == "mods"
TempDir == "temp"

----------------------------------------------------------------------------
(* Sequences and sets *)

Min(a, b) == IF a < b THEN a ELSE b

Range(s) == {s[i] : i \in DOMAIN s}

RECURSIVE SeqsUpTo(_)
SeqsUpTo(n) ==
  IF n = 0 THEN {<<>>}
  ELSE LET P == SeqsUpTo(n - 1)
       IN  P \cup {Append(s, b) : s \in {t \in P : Len(t) = n - 1}, b \in Byte}

Contents == SeqsUpTo(MaxLen)

RECURSIVE SubsetsUpTo(_, _)
SubsetsUpTo(S, n) ==
  IF n <= 0 THEN {{}}
  ELSE LET P == SubsetsUpTo(S, n - 1)
       IN  P \cup {p \cup {x} : p \in P, x \in S}

RECURSIVE SumSeq(_)
SumSeq(s) == IF s = <<>> THEN 0 ELSE s[1] + SumSeq(Tail(s))

RECURSIVE Concat(_)
Concat(ss) == IF ss = <<>> THEN <<>> ELSE ss[1] \o Concat(Tail(ss))

----------------------------------------------------------------------------
(* The disk: os.path and file primitives *)

\* f"{n:02d}": decimal digits, zero-padded to a minimum width of two
RECURSIVE Digits(_)
Digits(n) == IF n < 10 THEN <<n>> ELSE Append(Digits(n \div 10), n % 10)

\* mutant: a field of exactly two digits
Fmt02dTwoDigits(n) == <<(n \div 10) % 10, n % 10>>

Fmt02d(n) == IF n < 10 THEN <<0, n>> ELSE Digits(n)

\* a path: directory, original file name, and the ".partNN" suffix (<<>>: none)
PlainPath(dir, name) == [dir |-> dir, base |-> name, part |-> <<>>]

\* os.path.join(output_dir, f"{file_name}.part{chunk_idx + 1:02d}")
ChunkPath(dir, name, idx) == [dir |-> dir, base |-> name, part |-> Fmt02d(idx)]

Exists(d, p) == p \in DOMAIN d

\* open(p, 'wb'); write(data); close
WriteFile(d, p, data) == [q \in DOMAIN d \cup {p} |-> IF q = p THEN data ELSE d[q]]

\* os.remove(p)
RemoveFile(d, p) == [q \in DOMAIN d \ {p} |-> d[q]]

\* hashlib md5 hexdigest: a collision-free digest, read as a number
RECURSIVE Md5(_)
Md5(data) == IF data = <<>> THEN 1 ELSE 3 * Md5(SubSeq(data, 1, Len(data) - 1)) + data[Len(data)] + 1

\* mod_split.calculate_file_hash / util.calculate_file_hash: None on any failure
calculate_file_hash(d, p, fails) ==
  IF ~Exists(d, p) \/ fails THEN None ELSE Md5(d[p])

\* util.get_file_size_bytes: None on failure
get_file_size_bytes(d, p, fails) ==
  IF ~Exists(d, p) \/ fails THEN None ELSE Len(d[p])

\* an injected failure at place `kind` of the processing of file `name`, chunk k
Fault(kind, name, k) == [kind |-> kind, file |-> name, k |-> k]

----------------------------------------------------------------------------
(* mod_split.split_large_file *)

\* mutant: the quotient rounded down
ChunkCountFloor(file_size) == file_size \div CHUNK_SIZE

\* math.ceil(file_size / CHUNK_SIZE)
ChunkCount(file_size) == (file_size + CHUNK_SIZE - 1) \div CHUNK_SIZE

\* mutant: a read that returns one byte less than it was asked for
ReadChunkShort(data, pos) == SubSeq(data, pos + 1, Min(pos + CHUNK_SIZE, Len(data)) - 1)

\* src_file.read(CHUNK_SIZE) at read position pos
ReadChunk(data, pos) == SubSeq(data, pos + 1, Min(pos + CHUNK_SIZE, Len(data)))

\* what a write that fails part-way leaves in the fragment
PartialWrite(data) == SubSeq(data, 1, Len(data) - 1)

\* lines 95-101: remove the fragments recorded in chunk_info_list, return None
RECURSIVE CleanupChunks(_, _)
CleanupChunks(d, chunk_info_list) ==
  IF chunk_info_list = <<>> THEN d
  ELSE LET p == chunk_info_list[1].chunk_path
       IN  CleanupChunks(IF Exists(d, p) THEN RemoveFile(d, p) ELSE d, Tail(chunk_info_list))

SplitExcept(d, chunk_info_list) ==
  [status |-> "none", fs |-> CleanupChunks(d, chunk_info_list)]

\* mutant: the chunk is numbered by the loop variable, from zero
ChunkInfoZeroBased(d, name, chunk_file_path, chunk_idx, F) ==
  [chunk_name       |-> [base |-> name, part |-> chunk_file_path.part],
   chunk_path       |-> chunk_file_path,
   chunk_size_bytes |-> Len(d[chunk_file_path]),
   chunk_hash       |-> calculate_file_hash(d, chunk_file_path,
                                            Fault("chunk_hash", name, chunk_idx + 1) \in F),
   chunk_index      |-> chunk_idx]

\* lines 75-82
ChunkInfo(d, name, chunk_file_path, chunk_idx, F) ==
  [chunk_name       |-> [base |-> name, part |-> chunk_file_path.part],
   chunk_path       |-> chunk_file_path,
   chunk_size_bytes |-> Len(d[chunk_file_path]),
   chunk_hash       |-> calculate_file_hash(d, chunk_file_path,
                                            Fault("chunk_hash", name, chunk_idx + 1) \in F),
   chunk_index      |-> chunk_idx + 1]

\* lines 60-85: the loop over chunk_idx, then the return of lines 87-94
RECURSIVE SplitLoop(_, _, _, _, _, _, _)
SplitLoop(d, file_path, file_size, chunk_idx, pos, chunk_info_list, F) ==
  LET name == file_path.base
      k == chunk_idx + 1
      chunk_file_path == ChunkPath(file_path.dir, name, k)
      chunk_data == ReadChunk(d[file_path], pos)
      opened == WriteFile(d, chunk_file_path, <<>>)
      written == WriteFile(d, chunk_file_path, chunk_data)
  IN  IF chunk_idx >= ChunkCount(file_size)
      THEN [status |-> "ok",
            fs |-> d,
            info |-> [original_file_size_bytes |-> file_size,
                      original_file_hash |-> calculate_file_hash(d, file_path,
                                               Fault("orig_hash", name, 0) \in F),
                      chunk_count |-> ChunkCount(file_size),
                      chunks |-> chunk_info_list]]
      ELSE IF Fault("chunk_open", name, k) \in F
      THEN SplitExcept(d, chunk_info_list)
      ELSE IF Fault("read", name, k) \in F
      THEN SplitExcept(opened, chunk_info_list)
      ELSE IF Fault("write", name, k) \in F
      THEN SplitExcept(WriteFile(d, chunk_file_path, PartialWrite(chunk_data)), chunk_info_list)
      ELSE IF Fault("chunk_getsize", name, k) \in F
      THEN SplitExcept(written, chunk_info_list)
      ELSE SplitLoop(written, file_path, file_size, chunk_idx + 1, pos + Len(chunk_data),
                     Append(chunk_info_list,
                            ChunkInfo(written, name, chunk_file_path, chunk_idx, F)),
                     F)

\* split_large_file(file_path): status "ok" with the split information, "none"
\* for the None of line 101, "raise" for an exception of lines 44-56
split_large_file(d, file_path, F) ==
  IF ~Exists(d, file_path) \/ Fault("split_getsize", file_path.base, 0) \in F
  THEN [status |-> "raise", fs |-> d]
  ELSE IF Fault("src_open", file_path.base, 0) \in F
  THEN SplitExcept(d, <<>>)
  ELSE SplitLoop(d, file_path, Len(d[file_path]), 0, 0, <<>>, F)

----------------------------------------------------------------------------
(* mod_split.main *)

\* lines 134-141: the base record of one file
FileInfo(file_path, file_size, file_hash) ==
  [file_path |-> file_path, file_name |-> file_path.base,
   file_size_bytes |-> file_size, file_hash |-> file_hash, is_split |-> FALSE]

\* lines 147-150: if split_info: mark the record split and attach the details
WithSplit(file_info, res) ==
  IF res.status = "ok"
  THEN [file_info EXCEPT !.is_split = TRUE] @@ [split_details |-> res.info]
  ELSE file_info

\* lines 129-156, one file of the walk; `force` bypasses the threshold test
\* (a direct call of split_large_file on the file)
ProcessFile(d, file_path, F, force) ==
  LET name == file_path.base
      file_size == Len(d[file_path])
      file_hash == calculate_file_hash(d, file_path, Fault("main_hash", name, 0) \in F)
      file_info == FileInfo(file_path, file_size, file_hash)
      res == split_large_file(d, file_path, F)
  IN  IF Fault("main_getsize", name, 0) \in F
      THEN [raised |-> TRUE, fs |-> d, status |-> "notreached"]
      ELSE IF file_size > SPLIT_THRESHOLD \/ force
      THEN IF res.status = "raise"
           THEN [raised |-> TRUE, fs |-> res.fs, status |-> "raise"]
           ELSE [raised |-> FALSE, fs |-> res.fs, status |-> res.status,
                 file_info |-> WithSplit(file_info, res)]
      ELSE [raised |-> FALSE, fs |-> d, status |-> "unsplit", file_info |-> file_info]

\* lines 125-156: the walk over the .jar files of the directory, in walk order
RECURSIVE Walk(_, _, _, _, _)
Walk(d, files, all_mod_files, log, F) ==
  IF files = <<>>
  THEN [raised |-> FALSE, fs |-> d, all_mod_files |-> all_mod_files, log |-> log]
  ELSE LET file_path == PlainPath(ModDir, files[1])
           r == ProcessFile(d, file_path, F, FALSE)
       IN  IF ~Exists(d, file_path)
           THEN Walk(d, Tail(files), all_mod_files, log, F)
           ELSE IF r.raised
           THEN [raised |-> TRUE, fs |-> r.fs, all_mod_files |-> all_mod_files,
                 log |-> [log EXCEPT ![files[1]] = r.status]]
           ELSE Walk(r.fs, Tail(files), Append(all_mod_files, r.file_info),
                     [log EXCEPT ![files[1]] = r.status], F)

NoLog == [n \in Range(FileNames) |-> "notreached"]

\* main(mod_dir): the walk, then json.dump of the configuration (lines 158-169)
split_main(d, F) ==
  LET w == Walk(d, FileNames, <<>>, NoLog, F)
  IN  [fs |-> w.fs, log |-> w.log,
       config |-> IF w.raised \/ Fault("dump", "", 0) \in F
                  THEN [written |-> FALSE, all_mod_files |-> <<>>]
                  ELSE [written |-> TRUE, all_mod_files |-> w.all_mod_files]]

\* the places where the build of directory d can fail
BuildFaultPoints(d) ==
  UNION {
    LET p == PlainPath(ModDir, n)
        large == Len(d[p]) > SPLIT_THRESHOLD
    IN  {Fault(kd, n, 0) : kd \in {"main_getsize", "main_hash"}}
        \cup (IF large
              THEN {Fault(kd, n, 0) : kd \in {"split_getsize", "src_open", "orig_hash"}}
                   \cup {Fault(kd, n, k) :
                           kd \in {"chunk_open", "read", "write", "chunk_getsize", "chunk_hash"},
                           k \in 1..ChunkCount(Len(d[p]))}
              ELSE {})
    : n \in {m \in Range(FileNames) : Exists(d, PlainPath(ModDir, m))}}
  \cup {Fault("dump", "", 0)}

\* the places where a direct split of file n can fail
SplitFaultPoints(d, n) ==
  {Fault(kd, n, 0) : kd \in {"main_hash", "split_getsize", "src_open", "orig_hash"}}
  \cup {Fault(kd, n, k) :
          kd \in {"chunk_open", "read", "write", "chunk_getsize", "chunk_hash"},
          k \in 1..ChunkCount(Len(d[PlainPath(ModDir, n)]))}

----------------------------------------------------------------------------
(* mod_unsplit.validate_chunks *)

\* mutant: the list is used in the order of the manifest
SortByIndexListOrder(chunk_info_list) == chunk_info_list

\* sorted(chunk_info_list, key=lambda x: x["chunk_index"]): a stable sort
RECURSIVE InsertByIndex(_, _)
InsertByIndex(sorted, c) ==
  IF sorted = <<>> THEN <<c>>
  ELSE IF sorted[Len(sorted)].chunk_index <= c.chunk_index THEN Append(sorted, c)
  ELSE Append(InsertByIndex(SubSeq(sorted, 1, Len(sorted) - 1), c), sorted[Len(sorted)])

RECURSIVE SortByIndex(_)
SortByIndex(chunk_info_list) ==
  IF chunk_info_list = <<>> THEN <<>>
  ELSE InsertByIndex(SortByIndex(SubSeq(chunk_info_list, 1, Len(chunk_info_list) - 1)),
                     chunk_info_list[Len(chunk_info_list)])

\* one line of the log of an operation on the disk
Event(op, idx, verdict, size, hash) ==
  [op |-> op, chunk_index |-> idx, verdict |-> verdict,
   actual_size |-> size, actual_hash |-> hash]

\* mutant: the hash of the chunk is computed and never compared
CheckChunkNoHash(d, chunk, F) ==
  LET chunk_path == chunk.chunk_path
      name == chunk_path.base
      idx == chunk.chunk_index
      actual_size == get_file_size_bytes(d, chunk_path, Fault("v_getsize", name, idx) \in F)
      actual_hash == calculate_file_hash(d, chunk_path, Fault("v_hash", name, idx) \in F)
  IN  IF ~Exists(d, chunk_path)
      THEN Event("verify", idx, "missing", None, None)
      ELSE IF actual_size = None
      THEN Event("verify", idx, "raise", None, None)
      ELSE IF actual_size # chunk.chunk_size_bytes
      THEN Event("verify", idx, "size", actual_size, None)
      ELSE Event("verify", idx, "ok", actual_size, actual_hash)

\* lines 22-52: the three checks of one chunk, with what was measured; when
\* get_file_size_bytes returns None, round(actual_size / BYTES_TO_MB, 4) of
\* line 37 raises TypeError
CheckChunk(d, chunk, F) ==
  LET chunk_path == chunk.chunk_path
      name == chunk_path.base
      idx == chunk.chunk_index
      actual_size == get_file_size_bytes(d, chunk_path, Fault("v_getsize", name, idx) \in F)
      actual_hash == calculate_file_hash(d, chunk_path, Fault("v_hash", name, idx) \in F)
  IN  IF ~Exists(d, chunk_path)
      THEN Event("verify", idx, "missing", None, None)
      ELSE IF actual_size = None
      THEN Event("verify", idx, "raise", None, None)
      ELSE IF actual_size # chunk.chunk_size_bytes
      THEN Event("verify", idx, "size", actual_size, None)
      ELSE IF actual_hash # chunk.chunk_hash
      THEN Event("verify", idx, "hash", actual_size, actual_hash)
      ELSE Event("verify", idx, "ok", actual_size, actual_hash)

\* lines 21-52: the loop over sorted_chunks, left by the exception of a chunk
RECURSIVE ValidateLoop(_, _, _, _, _)
ValidateLoop(d, sorted_chunks, all_valid, report, F) ==
  IF sorted_chunks = <<>>
  THEN [all_valid |-> all_valid, raised |-> FALSE, report |-> report]
  ELSE LET e == CheckChunk(d, sorted_chunks[1], F)
       IN  IF e.verdict = "raise"
           THEN [all_valid |-> FALSE, raised |-> TRUE, report |-> Append(report, e)]
           ELSE ValidateLoop(d, Tail(sorted_chunks), all_valid /\ e.verdict = "ok",
                             Append(report, e), F)

validate_chunks(d, chunk_info_list, F) ==
  ValidateLoop(d, SortByIndex(chunk_info_list), TRUE, <<>>, F)

----------------------------------------------------------------------------
(* mod_unsplit.restore_split_file *)

\* lines 92-101: append the fragments to the opened destination file
RECURSIVE ConcatLoop(_, _, _, _, _)
ConcatLoop(d, restored_path, sorted_chunks, events, F) ==
  IF sorted_chunks = <<>>
  THEN [raised |-> FALSE, fs |-> d, events |-> events]
  ELSE LET chunk == sorted_chunks[1]
           chunk_path == chunk.chunk_path
       IN  IF ~Exists(d, chunk_path)
              \/ Fault("concat", chunk_path.base, chunk.chunk_index) \in F
           THEN [raised |-> TRUE, fs |-> d, events |-> events]
           ELSE ConcatLoop(WriteFile(d, restored_path, d[restored_path] \o d[chunk_path]),
                           restored_path, Tail(sorted_chunks),
                           Append(events, Event("append", chunk.chunk_index, "", None, None)),
                           F)

\* lines 135-140: remove the unfinished destination file
RestoreExcept(d, restored_path, events) ==
  IF Exists(d, restored_path)
  THEN [result |-> FALSE, outcome |-> "error", fs |-> RemoveFile(d, restored_path),
        events |-> Append(events, Event("remove", 0, "", None, None))]
  ELSE [result |-> FALSE, outcome |-> "error", fs |-> d, events |-> events]

\* mutant: the size of the written file is checked, its hash is not
VerifyRestoredSizeOnly(d, file_info, restored_path, events, F) ==
  LET name == restored_path.base
      actual_size == get_file_size_bytes(d, restored_path, Fault("r_getsize", name, 0) \in F)
      actual_hash == calculate_file_hash(d, restored_path, Fault("r_hash", name, 0) \in F)
      checked == Append(events, Event("check", 0, "", actual_size, actual_hash))
      removed == Append(checked, Event("remove", 0, "", None, None))
  IN  IF actual_size = None
      THEN RestoreExcept(d, restored_path, checked)
      ELSE IF actual_size # file_info.file_size_bytes
      THEN [result |-> FALSE, outcome |-> "size", fs |-> RemoveFile(d, restored_path),
            events |-> removed]
      ELSE [result |-> TRUE, outcome |-> "restored", fs |-> d, events |-> checked]

\* lines 103-133: size and hash of the written file against the record; the
\* TypeError of line 114 for a size of None is caught at line 135
VerifyRestored(d, file_info, restored_path, events, F) ==
  LET name == restored_path.base
      actual_size == get_file_size_bytes(d, restored_path, Fault("r_getsize", name, 0) \in F)
      actual_hash == calculate_file_hash(d, restored_path, Fault("r_hash", name, 0) \in F)
      checked == Append(events, Event("check", 0, "", actual_size, actual_hash))
      removed == Append(checked, Event("remove", 0, "", None, None))
  IN  IF actual_size = None
      THEN RestoreExcept(d, restored_path, checked)
      ELSE IF actual_size # file_info.file_size_bytes
      THEN [result |-> FALSE, outcome |-> "size", fs |-> RemoveFile(d, restored_path),
            events |-> removed]
      ELSE IF actual_hash # file_info.file_hash
      THEN [result |-> FALSE, outcome |-> "hash", fs |-> RemoveFile(d, restored_path),
            events |-> removed]
      ELSE [result |-> TRUE, outcome |-> "restored", fs |-> d, events |-> checked]

\* lines 87-140: concatenate in index order, verify, clean up on failure
ConcatAndVerify(d, file_info, restored_path, events, F) ==
  LET sorted_chunks == SortByIndex(file_info.split_details.chunks)
      created == WriteFile(d, restored_path, <<>>)
      c == ConcatLoop(created, restored_path, sorted_chunks,
                      Append(events, Event("create", 0, "", None, None)), F)
  IN  IF Fault("dest_open", restored_path.base, 0) \in F
      THEN RestoreExcept(d, restored_path, events)
      ELSE IF c.raised
      THEN RestoreExcept(c.fs, restored_path, c.events)
      ELSE VerifyRestored(c.fs, file_info, restored_path, c.events, F)

\* mutant: the result of validate_chunks is ignored
restore_split_file_unchecked(d, file_info, output_dir, F) ==
  LET restored_path == PlainPath(output_dir, file_info.file_path.base)
      v == validate_chunks(d, file_info.split_details.chunks, F)
  IN  IF Exists(d, restored_path)
      THEN [result |-> FALSE, outcome |-> "exists", fs |-> d, events |-> <<>>]
      ELSE IF v.raised
      THEN [result |-> FALSE, outcome |-> "raise", fs |-> d, events |-> v.report]
      ELSE ConcatAndVerify(d, file_info, restored_path, v.report, F)

\* mutant: an existing destination is overwritten
restore_split_file_overwrite(d, file_info, output_dir, F) ==
  LET restored_path == PlainPath(output_dir, file_info.file_path.base)
      v == validate_chunks(d, file_info.split_details.chunks, F)
  IN  IF v.raised
      THEN [result |-> FALSE, outcome |-> "raise", fs |-> d, events |-> v.report]
      ELSE IF ~v.all_valid
      THEN [result |-> FALSE, outcome |-> "invalid", fs |-> d, events |-> v.report]
      ELSE ConcatAndVerify(d, file_info, restored_path, v.report, F)

\* restore_split_file(file_info, output_dir); outcome "raise": the exception
\* of validate_chunks leaves the call, which returns nothing
restore_split_file(d, file_info, output_dir, F) ==
  LET restored_path == PlainPath(output_dir, file_info.file_path.base)
      v == validate_chunks(d, file_info.split_details.chunks, F)
  IN  IF Exists(d, restored_path)
      THEN [result |-> FALSE, outcome |-> "exists", fs |-> d, events |-> <<>>]
      ELSE IF v.raised
      THEN [result |-> FALSE, outcome |-> "raise", fs |-> d, events |-> v.report]
      ELSE IF ~v.all_valid
      THEN [result |-> FALSE, outcome |-> "invalid", fs |-> d, events |-> v.report]
      ELSE ConcatAndVerify(d, file_info, restored_path, v.report, F)

\* the places where the restore of one record can fail: none when the
\* destination exists, the call returning before it touches a file
RestoreFaultPoints(d, file_info, output_dir) ==
  LET name == file_info.file_path.base
  IN  IF Exists(d, PlainPath(output_dir, name)) THEN {}
      ELSE {Fault(kd, name, 0) : kd \in {"dest_open", "r_getsize", "r_hash"}}
           \cup {Fault(kd, name, c.chunk_index) :
                   kd \in {"v_getsize", "v_hash", "concat"},
                   c \in Range(file_info.split_details.chunks)}

----------------------------------------------------------------------------
(* mod_unsplit.validate_unsplit_file and main *)

\* validate_unsplit_file(file_info); outcome "raise": the TypeError of line
\* 164 for a size of None
validate_unsplit_file(d, file_info, F) ==
  LET file_path == file_info.file_path
      name == file_path.base
      actual_size == get_file_size_bytes(d, file_path, Fault("u_getsize", name, 0) \in F)
      actual_hash == calculate_file_hash(d, file_path, Fault("u_hash", name, 0) \in F)
  IN  IF ~Exists(d, file_path) THEN [result |-> FALSE, outcome |-> "missing"]
      ELSE IF actual_size = None THEN [result |-> FALSE, outcome |-> "raise"]
      ELSE IF actual_size # file_info.file_size_bytes THEN [result |-> FALSE, outcome |-> "size"]
      ELSE IF actual_hash # file_info.file_hash THEN [result |-> FALSE, outcome |-> "hash"]
      ELSE [result |-> TRUE, outcome |-> "valid"]

\* lines 217 and 221: count the file by its kind, before it is processed
CountKind(st, is_split) ==
  [st EXCEPT !.split = IF is_split THEN @ + 1 ELSE @,
             !.unsplit = IF is_split THEN @ ELSE @ + 1]

\* lines 226-230: update the statistics with the result of one file
CountResult(st, is_split, result) ==
  [CountKind(st, is_split) EXCEPT !.success = IF result THEN @ + 1 ELSE @,
                                  !.fail = IF result THEN @ ELSE @ + 1]

\* what one call of the loop did: the record it was given, whether its
\* destination existed when it started, its return value and its log
CallRecord(d, file_info, output_dir, r) ==
  [file_info |-> file_info,
   pre_exists |-> Exists(d, PlainPath(output_dir, file_info.file_name)),
   result |-> r.result, outcome |-> r.outcome, events |-> r.events]

\* lines 215-230: the loop over config["all_mod_files"]; an exception of a
\* call leaves the loop and main
RECURSIVE BatchLoop(_, _, _, _, _, _)
BatchLoop(d, files, output_dir, st, results, F) ==
  IF files = <<>>
  THEN [fs |-> d, stats |-> st, results |-> results]
  ELSE LET file_info == files[1]
           r == IF file_info.is_split
                THEN restore_split_file(d, file_info, output_dir, F)
                ELSE validate_unsplit_file(d, file_info, F) @@ [fs |-> d, events |-> <<>>]
       IN  IF r.outcome = "raise"
           THEN [fs |-> r.fs, stats |-> CountKind(st, file_info.is_split),
                 results |-> Append(results, CallRecord(d, file_info, output_dir, r))]
           ELSE
           BatchLoop(r.fs, Tail(files), output_dir,
                     CountResult(st, file_info.is_split, r.result),
                     Append(results, CallRecord(d, file_info, output_dir, r)),
                     F)

\* main(config_file, output_dir)
unsplit_main(d, cfg, output_dir, F) ==
  BatchLoop(d, cfg.all_mod_files, output_dir,
            [total |-> Len(cfg.all_mod_files), split |-> 0, unsplit |-> 0,
             success |-> 0, fail |-> 0],
            <<>>, F)

\* the places where the batch can fail
BatchFaultPoints(d, cfg, output_dir) ==
  UNION {IF file_info.is_split THEN RestoreFaultPoints(d, file_info, output_dir)
         ELSE {Fault(kd, file_info.file_name, 0) : kd \in {"u_getsize", "u_hash"}}
         : file_info \in Range(cfg.all_mod_files)}

----------------------------------------------------------------------------
(* mod_validate.get_local_mod_file_map and validate_mods_with_config *)

\* a directory below the mods directory
SubDir == "mods/old"

\* os.walk(local_mod_dir): the directory itself, then the directories below
LocalDirs == <<ModDir, SubDir>>

\* the name of a file: its base name, with ".partNN" for a fragment
FileName(p) == [base |-> p.base, part |-> p.part]

\* the file name a manifest record carries
RecordName(mod_info) == [base |-> mod_info.file_name, part |-> <<>>]

\* name.endswith(".jar")
EndsWithJar(name) == name.part = <<>> /\ name.base \in {"a.jar", "b.jar", "c.jar"}

\* the files of one directory in the order the walk lists them
RECURSIVE ListDir(_)
ListDir(S) ==
  IF S = {} THEN <<>>
  ELSE LET x == CHOOSE x \in S : TRUE IN <<x>> \o ListDir(S \ {x})

\* lines 59-61: every file of the tree, directory by directory
WalkLocal(d) ==
  Concat([i \in DOMAIN LocalDirs |-> ListDir({p \in DOMAIN d : p.dir = LocalDirs[i]})])

\* lines 62-72: the information of one local file
LocalInfo(d, file_path, F) ==
  [file_name  |-> FileName(file_path),
   file_path  |-> file_path,
   hash       |-> calculate_file_hash(d, file_path, Fault("l_hash", file_path, 0) \in F),
   size_bytes |-> get_file_size_bytes(d, file_path, Fault("l_size", file_path, 0) \in F)]

\* get_local_mod_file_map(local_mod_dir)
get_local_mod_file_map(d, F) ==
  LET files == WalkLocal(d)
      all_local_files == [i \in DOMAIN files |-> LocalInfo(d, files[i], F)]
      hashes == {f.hash : f \in Range(all_local_files)} \ {None}
      file_names == {f.file_name : f \in Range(all_local_files)}
  IN  [hash_to_files |-> [h \in hashes |-> SelectSeq(all_local_files, LAMBDA f : f.hash = h)],
       name_to_files |-> [n \in file_names |->
                            SelectSeq(all_local_files, LAMBDA f : f.file_name = n)],
       all_local_files |-> all_local_files]

NoInconsistent ==
  [missing_files |-> <<>>, size_mismatch |-> <<>>, hash_mismatch |-> <<>>,
   error_files |-> <<>>]

\* an entry of one of the lists of inconsistent_mods
Entry(file_name, path) == [file_name |-> file_name, path |-> path]

\* lines 186-207: the size check of step 3, without a continue after a mismatch
SizeStep(inc, mod_info, local_mod_file) ==
  IF local_mod_file.size_bytes # mod_info.file_size_bytes
  THEN [inc EXCEPT !.size_mismatch =
          Append(@, Entry(RecordName(mod_info), local_mod_file.file_path))]
  ELSE inc

\* mutant: the record is looked up by name before it is looked up by hash
CheckModNameFirst(inc, mod_info, maps) ==
  LET mod_file_name == RecordName(mod_info)
      local_mod_file == maps.name_to_files[mod_file_name][1]
      sized == SizeStep(inc, mod_info, local_mod_file)
  IN  IF mod_file_name \notin DOMAIN maps.name_to_files
      THEN IF mod_info.file_hash \in DOMAIN maps.hash_to_files
           THEN inc
           ELSE [inc EXCEPT !.missing_files = Append(@, Entry(mod_file_name, mod_info.file_path))]
      ELSE IF local_mod_file.size_bytes = None
      THEN [inc EXCEPT !.error_files = Append(@, Entry(mod_file_name, local_mod_file.file_path))]
      ELSE IF local_mod_file.hash = None
      THEN [sized EXCEPT !.error_files = Append(@, Entry(mod_file_name, local_mod_file.file_path))]
      ELSE IF local_mod_file.hash # mod_info.file_hash
      THEN [sized EXCEPT !.hash_mismatch = Append(@, Entry(mod_file_name, local_mod_file.file_path))]
      ELSE sized

\* lines 156-228: the steps 1 to 4 for one record whose hash is not None
CheckMod(inc, mod_info, maps) ==
  LET mod_file_name == RecordName(mod_info)
      local_mod_file == maps.name_to_files[mod_file_name][1]
      sized == SizeStep(inc, mod_info, local_mod_file)
  IN  IF mod_info.file_hash \in DOMAIN maps.hash_to_files
      THEN inc
      ELSE IF mod_file_name \notin DOMAIN maps.name_to_files
      THEN [inc EXCEPT !.missing_files = Append(@, Entry(mod_file_name, mod_info.file_path))]
      ELSE IF local_mod_file.size_bytes = None
      THEN [inc EXCEPT !.error_files = Append(@, Entry(mod_file_name, local_mod_file.file_path))]
      ELSE IF local_mod_file.hash = None
      THEN [sized EXCEPT !.error_files = Append(@, Entry(mod_file_name, local_mod_file.file_path))]
      ELSE IF local_mod_file.hash # mod_info.file_hash
      THEN [sized EXCEPT !.hash_mismatch = Append(@, Entry(mod_file_name, local_mod_file.file_path))]
      ELSE sized

\* lines 145-228: the loop over config_mod_list; mod_expected_hash[:8] of
\* line 154 raises TypeError for a record whose hash is None
RECURSIVE CheckMods(_, _, _)
CheckMods(inc, config_mod_list, maps) ==
  IF config_mod_list = <<>> THEN [status |-> "ok", inconsistent_mods |-> inc]
  ELSE IF config_mod_list[1].file_hash = None THEN [status |-> "raise"]
  ELSE CheckMods(CheckMod(inc, config_mod_list[1], maps), Tail(config_mod_list), maps)

\* lines 230-250: the local files the manifest does not record
ExtraFiles(all_local_files, config_hash_set, config_name_set) ==
  SelectSeq(all_local_files,
            LAMBDA f : /\ ~(f.hash \in config_hash_set \/ f.file_name \in config_name_set)
                       /\ EndsWithJar(f.file_name))

\* validate_mods_with_config(config_file_path, local_mod_dir): the two values
\* it returns, with the listing of the directory it worked on
validate_mods_with_config(cfg, d, F) ==
  LET maps == get_local_mod_file_map(d, F)
      config_hash_set == {r.file_hash : r \in Range(cfg.all_mod_files)} \ {None}
      config_name_set == {RecordName(r) : r \in Range(cfg.all_mod_files)}
      checked == CheckMods(NoInconsistent, cfg.all_mod_files, maps)
  IN  IF ~cfg.written THEN [status |-> "noconfig"]
      ELSE IF checked.status = "raise" THEN checked
      ELSE checked @@ [extra_local_files |->
                         ExtraFiles(maps.all_local_files, config_hash_set, config_name_set),
                       all_local_files |-> maps.all_local_files]

\* the places where the listing of the local directory can fail
DriftFaultPoints(d) ==
  {Fault(kd, p, 0) : kd \in {"l_hash", "l_size"},
                     p \in {q \in DOMAIN d : q.dir \in Range(LocalDirs)}}

----------------------------------------------------------------------------
(* State machine.  A call receives a set F of failures that all strike: a *)
(* failure at a place the call does not reach is no failure of the call.  *)

NoCall == <<>>
NoStats == [total |-> 0, split |-> 0, unsplit |-> 0, success |-> 0, fail |-> 0]
NoConfig == [written |-> FALSE, all_mod_files |-> <<>>]

\* the second tracked file of the directory, below the split threshold
BContents == {<<1>>}

\* the file split_large_file is called on directly
SplitTargets == {"a.jar"}

\* the fragment names generated so far by the loop of one split (line 62),
\* and the report of the last drift detection
NoNames == <<>>
NoDrift == [status |-> "notrun"]
NoDeploy == [pc |-> "notrun"]

\* disturbances left to the behaviour
Budget == MaxDisturb - faultsUsed - tampersUsed

Init ==
  /\ \E a \in Contents, b \in BContents :
       fs = [p \in {PlainPath(ModDir, "a.jar"), PlainPath(ModDir, "b.jar")} |->
               IF p.base = "a.jar" THEN a ELSE b]
  /\ config = NoConfig
  /\ splitLog = NoLog
  /\ call = NoCall
  /\ stats = NoStats
  /\ last = "init"
  /\ faultsUsed = 0
  /\ tampersUsed = 0
  /\ names = NoNames
  /\ drift = NoDrift
  /\ deploy = NoDeploy

\* python mod_split.py: build the manifest of the mods directory
Build ==
  /\ last = "init"
  /\ \E F \in SubsetsUpTo(BuildFaultPoints(fs), Budget) :
       \E r \in {split_main(fs, F)} :
           /\ \A x \in F : split_main(fs, F \ {x}) # r
           /\ fs' = r.fs
           /\ config' = r.config
           /\ splitLog' = r.log
           /\ faultsUsed' = faultsUsed + Cardinality(F)
  /\ last' = "build"
  /\ UNCHANGED <<call, stats, tampersUsed, names, drift, deploy>>

\* split_large_file called directly on one file, whatever its size, the
\* record of the file assembled as main assembles it
SplitCall ==
  /\ last = "init"
  /\ \E n \in SplitTargets :
       \E F \in SubsetsUpTo(SplitFaultPoints(fs, n), Budget) :
         \E r \in {ProcessFile(fs, PlainPath(ModDir, n), F, TRUE)} :
             /\ \A x \in F : ProcessFile(fs, PlainPath(ModDir, n), F \ {x}, TRUE) # r
             /\ fs' = r.fs
             /\ config' = IF r.raised THEN NoConfig
                          ELSE [written |-> TRUE, all_mod_files |-> <<r.file_info>>]
             /\ splitLog' = [NoLog EXCEPT ![n] = r.status]
             /\ faultsUsed' = faultsUsed + Cardinality(F)
  /\ last' = "split"
  /\ UNCHANGED <<call, stats, tampersUsed, names, drift, deploy>>

\* the files the restore reads: the fragments the manifest names and the
\* files of the output directory
Tamperable ==
  {p \in DOMAIN fs :
     \/ p.dir = TempDir
     \/ \E r \in Range(config.all_mod_files) :
          r.is_split /\ \E i \in DOMAIN r.split_details.chunks :
                          r.split_details.chunks[i].chunk_path = p}

\* the environment deletes, truncates or changes one byte of such a file
Tamper ==
  /\ config.written
  /\ Budget > 0
  /\ \E p \in Tamperable :
       \/ fs' = RemoveFile(fs, p)
       \/ /\ fs[p] # <<>>
          /\ fs' = WriteFile(fs, p, SubSeq(fs[p], 1, Len(fs[p]) - 1))
       \/ \E i \in DOMAIN fs[p] : fs' = WriteFile(fs, p, [fs[p] EXCEPT ![i] = 1 - @])
  /\ tampersUsed' = tampersUsed + 1
  /\ call' = NoCall
  /\ stats' = NoStats
  /\ last' = "tamper"
  /\ UNCHANGED <<config, splitLog, faultsUsed, names, drift, deploy>>

\* python mod_unsplit.py: restore or validate every file of the manifest
UnsplitMain ==
  /\ config.written
  /\ \E F \in SubsetsUpTo(BatchFaultPoints(fs, config, TempDir), Budget) :
       \E r \in {unsplit_main(fs, config, TempDir, F)} :
           /\ \A x \in F : unsplit_main(fs, config, TempDir, F \ {x}) # r
           /\ fs' = r.fs
           /\ stats' = r.stats
           /\ call' = r.results
           /\ faultsUsed' = faultsUsed + Cardinality(F)
  /\ last' = "batch"
  /\ UNCHANGED <<config, splitLog, tampersUsed, names, drift, deploy>>

Next == Build \/ SplitCall \/ Tamper \/ UnsplitMain

Spec == Init /\ [][Next]_vars

----------------------------------------------------------------------------
(* The naming of the fragments of one split, one iteration of the loop of  *)
(* split_large_file at a time, for chunk counts beyond two digits          *)

NoDisk == [p \in {} |-> <<>>]

InitNaming ==
  /\ fs = NoDisk
  /\ config = NoConfig
  /\ splitLog = NoLog
  /\ call = NoCall
  /\ stats = NoStats
  /\ last = "init"
  /\ faultsUsed = 0
  /\ tampersUsed = 0
  /\ names = NoNames
  /\ drift = NoDrift
  /\ deploy = NoDeploy

\* lines 60-63: chunk_file_path of iteration chunk_idx = Len(names)
NameFragment ==
  /\ Len(names) < MaxChunks
  /\ \E n \in Range(FileNames) :
       /\ names # <<>> => names[1].base = n
       /\ names' = Append(names, ChunkPath(ModDir, n, Len(names) + 1))
  /\ last' = "name"
  /\ UNCHANGED <<fs, config, splitLog, call, stats, faultsUsed, tampersUsed, drift, deploy>>

NextNaming == NameFragment

SpecNaming == InitNaming /\ [][NextNaming]_vars

----------------------------------------------------------------------------
(* Restore from a manifest whose chunk records were reordered or renumbered *)
(* between the build and the restore; no I/O failure, fragments untouched  *)

InitOrder ==
  /\ \E a \in SeqsUpTo(MaxOrderLen), b \in BContents :
       fs = [p \in {PlainPath(ModDir, "a.jar"), PlainPath(ModDir, "b.jar")} |->
               IF p.base = "a.jar" THEN a ELSE b]
  /\ config = NoConfig
  /\ splitLog = NoLog
  /\ call = NoCall
  /\ stats = NoStats
  /\ last = "init"
  /\ faultsUsed = 0
  /\ tampersUsed = 0
  /\ names = NoNames
  /\ drift = NoDrift
  /\ deploy = NoDeploy

\* python mod_split.py, every I/O succeeding
BuildClean ==
  /\ last = "init"
  /\ \E r \in {split_main(fs, {})} :
       /\ fs' = r.fs
       /\ config' = r.config
       /\ splitLog' = r.log
  /\ last' = "build"
  /\ UNCHANGED <<call, stats, faultsUsed, tampersUsed, names, drift, deploy>>

\* split_large_file called directly on one file, every I/O succeeding
SplitClean ==
  /\ last = "init"
  /\ \E n \in SplitTargets :
       \E r \in {ProcessFile(fs, PlainPath(ModDir, n), {}, TRUE)} :
         /\ fs' = r.fs
         /\ config' = [written |-> TRUE, all_mod_files |-> <<r.file_info>>]
         /\ splitLog' = [NoLog EXCEPT ![n] = r.status]
  /\ last' = "split"
  /\ UNCHANGED <<call, stats, faultsUsed, tampersUsed, names, drift, deploy>>

Perms(n) == {p \in [1..n -> 1..n] : \A i, j \in 1..n : p[i] = p[j] => i = j}

\* config["all_mod_files"][k]["split_details"]["chunks"] replaced
WithChunks(cfg, k, chunks) ==
  [cfg EXCEPT !.all_mod_files[k].split_details.chunks = chunks]

\* the chunk records of one split record are listed in another order
PermuteChunks ==
  /\ last \in {"build", "split"}
  /\ \E k \in DOMAIN config.all_mod_files :
       /\ config.all_mod_files[k].is_split
       /\ LET chunks == config.all_mod_files[k].split_details.chunks
          IN  \E p \in Perms(Len(chunks)) :
                /\ \E i \in DOMAIN chunks : p[i] # i
                /\ config' = WithChunks(config, k, [i \in DOMAIN chunks |-> chunks[p[i]]])
  /\ last' = "permute"
  /\ UNCHANGED <<fs, splitLog, call, stats, faultsUsed, tampersUsed, names, drift, deploy>>

\* the chunk_index fields of two chunk records are exchanged
ExchangeIndices ==
  /\ last \in {"build", "split"}
  /\ \E k \in DOMAIN config.all_mod_files :
       /\ config.all_mod_files[k].is_split
       /\ LET chunks == config.all_mod_files[k].split_details.chunks
          IN  \E i, j \in DOMAIN chunks :
                /\ i < j
                /\ config' = WithChunks(config, k,
                                [chunks EXCEPT ![i].chunk_index = chunks[j].chunk_index,
                                               ![j].chunk_index = chunks[i].chunk_index])
  /\ last' = "exchange"
  /\ UNCHANGED <<fs, splitLog, call, stats, faultsUsed, tampersUsed, names, drift, deploy>>

\* python mod_unsplit.py, every I/O succeeding
UnsplitClean ==
  /\ config.written
  /\ last # "batch"
  /\ \E r \in {unsplit_main(fs, config, TempDir, {})} :
       /\ fs' = r.fs
       /\ stats' = r.stats
       /\ call' = r.results
  /\ last' = "batch"
  /\ UNCHANGED <<config, splitLog, faultsUsed, tampersUsed, names, drift, deploy>>

NextOrder == BuildClean \/ SplitClean \/ PermuteChunks \/ ExchangeIndices \/ UnsplitClean

SpecOrder == InitOrder /\ [][NextOrder]_vars

----------------------------------------------------------------------------
(* Drift detection: the local mods directory changes after the build, then *)
(* validate_mods_with_config compares it with the manifest                 *)

\* the local files the environment changes: the files of the directory tree
\* that are no fragments
Driftable == {p \in DOMAIN fs : p.dir \in Range(LocalDirs) /\ p.part = <<>>}

\* where a copy of file p can appear: under another name, or under its own
\* name in the directory below
CopyTargets(p) ==
  {PlainPath(ModDir, "c.jar"), PlainPath(ModDir, "notes.txt"), PlainPath(SubDir, p.base)}
    \ DOMAIN fs

\* the environment deletes, truncates, changes or copies a local file
DriftLocal ==
  /\ config.written
  /\ last \in {"build", "drift"}
  /\ Budget > 0
  /\ \E p \in Driftable :
       \/ fs' = RemoveFile(fs, p)
       \/ /\ fs[p] # <<>>
          /\ fs' = WriteFile(fs, p, SubSeq(fs[p], 1, Len(fs[p]) - 1))
       \/ /\ fs[p] # <<>>
          /\ fs' = WriteFile(fs, p, [fs[p] EXCEPT ![Len(fs[p])] = 1 - @])
       \/ \E q \in CopyTargets(p) : fs' = WriteFile(fs, q, fs[p])
  /\ tampersUsed' = tampersUsed + 1
  /\ last' = "drift"
  /\ UNCHANGED <<config, splitLog, call, stats, faultsUsed, names, drift, deploy>>

\* python mod_validate.py
Validate ==
  /\ config.written
  /\ last \in {"build", "drift"}
  /\ \E F \in SubsetsUpTo(DriftFaultPoints(fs), Budget) :
       \E r \in {validate_mods_with_config(config, fs, F)} :
         /\ \A x \in F : validate_mods_with_config(config, fs, F \ {x}) # r
         /\ drift' = r
         /\ faultsUsed' = faultsUsed + Cardinality(F)
  /\ last' = "validate"
  /\ UNCHANGED <<fs, config, splitLog, call, stats, tampersUsed, names, deploy>>

NextDrift == Build \/ DriftLocal \/ Validate

SpecDrift == Init /\ [][NextDrift]_vars

----------------------------------------------------------------------------
(* main.py: the update flow.  MCUpdaterGUI.start_update_flow starts a       *)
(* GitDeployThread whose run fetches the remote manifest from a list of     *)
(* mirrors and compares it with the local one; finish_signal is delivered   *)
(* to MCUpdaterGUI.on_git_deploy_finish                                     *)

\* what a manifest file can hold: a split_time, or no JSON at all
Manifests == {"t1", "t2", "garbage"}
Absent == "absent"
Partial == "partial"

\* None of get_fastest_url
NoUrl == 0

\* float("inf") of get_fastest_url
Infinity == MaxTime + 1

\* lines 233-248: heads[url] is the response time of the HEAD request to url,
\* 0 when the request fails or its status is not 200
RECURSIVE FastestLoop(_, _, _, _)
FastestLoop(url_list, heads, fastest_url, min_response_time) ==
  IF url_list = <<>>
  THEN fastest_url
  ELSE LET url == Head(url_list)
           response_time == heads[url]
       IN  IF response_time # 0 /\ response_time < min_response_time
           THEN FastestLoop(Tail(url_list), heads, url, response_time)
           ELSE FastestLoop(Tail(url_list), heads, fastest_url, min_response_time)

get_fastest_url(url_list, heads) == FastestLoop(url_list, heads, NoUrl, Infinity)

\* lines 79-84: the fastest mirror first, then the others in the order of the list
DownloadUrls(url_list, fastest_url) ==
  IF fastest_url = NoUrl
  THEN url_list
  ELSE <<fastest_url>> \o SelectSeq(url_list, LAMBDA u : u # fastest_url)

\* lines 225-227: the handler of run logs the exception and emits finish_signal(False)
RunExcept(dp, e) ==
  [dp EXCEPT !.pc = "returned",
             !.finish_emits = Append(@, FALSE),
             !.pending = Append(@, FALSE),
             !.path = "failed",
             !.exc = e]

\* lines 88-111: one iteration of the download loop.  outcome "connect": an
\* exception of requests.get or raise_for_status, before git_zip_path is
\* assigned at line 94; "open": open fails; "write": the transfer fails with
\* part of the file written; "ok": the file holds content.  The handler reads
\* git_zip_path at line 107: while the name is unbound this raises
\* UnboundLocalError, which leaves the loop for the handler of line 225.
DownloadAttempt(dp, outcome, content) ==
  LET url == dp.download_urls[dp.idx + 1]
      tried == Append(dp.attempts, [url |-> url, outcome |-> outcome])
      bound == dp.git_zip_path_bound \/ outcome # "connect"
  IN  IF outcome = "ok"
      THEN [dp EXCEPT !.attempts = tried,
                      !.git_zip_path_bound = TRUE,
                      !.temp = content,
                      !.download_success = TRUE]
      ELSE IF ~bound
      THEN RunExcept([dp EXCEPT !.attempts = tried], "unbound")
      ELSE [dp EXCEPT !.attempts = tried,
                      !.git_zip_path_bound = TRUE,
                      !.temp = Absent,
                      !.idx = @ + 1,
                      !.all_failed_logged = (dp.idx = Len(dp.download_urls) - 1)]

\* lines 117-138: compare the fetched manifest with the local one; readable
\* is FALSE when get_json_from_file fails on a file and returns None.  The
\* return of line 138 ends run: lines 139-223 are never executed.
CompareManifests(dp, readable) ==
  IF dp.local # Absent
  THEN IF ~readable \/ dp.local = "garbage" \/ dp.temp = "garbage"
       THEN RunExcept(dp, "json")
       ELSE IF dp.local = dp.temp
       THEN [dp EXCEPT !.pc = "returned",
                       !.finish_emits = Append(@, TRUE),
                       !.pending = Append(@, TRUE),
                       !.path = "uptodate"]
       ELSE [dp EXCEPT !.pc = "returned", !.path = "outdated"]
  ELSE [dp EXCEPT !.local = dp.temp, !.temp = Absent,
                  !.pc = "returned", !.path = "created"]

DeployFrame ==
  UNCHANGED <<fs, config, splitLog, call, stats, last, faultsUsed, tampersUsed,
              names, drift>>

\* the window is shown, the button is enabled; the list of mirrors holds one
\* mirror (mod_info_urls) or more (git_download_urls holds three)
InitDeploy ==
  /\ fs = NoDisk
  /\ config = NoConfig
  /\ splitLog = NoLog
  /\ call = NoCall
  /\ stats = NoStats
  /\ last = "init"
  /\ faultsUsed = 0
  /\ tampersUsed = 0
  /\ names = NoNames
  /\ drift = NoDrift
  /\ \E n \in 1..MaxMirrors, m \in {Absent, "t1"} :
       deploy = [mod_info_urls |-> [i \in 1..n |-> i],
                 btn_enabled |-> TRUE,
                 git_deployed |-> FALSE,
                 runs |-> 0,
                 pc |-> "idle",
                 download_urls |-> <<>>,
                 idx |-> 0,
                 git_zip_path_bound |-> FALSE,
                 download_success |-> FALSE,
                 attempts |-> <<>>,
                 all_failed_logged |-> FALSE,
                 finish_emits |-> <<>>,
                 pending |-> <<>>,
                 temp |-> Absent,
                 local |-> m,
                 path |-> "",
                 exc |-> ""]

\* lines 307-318: a click on the enabled button disables it and starts a thread
StartUpdateFlow ==
  /\ deploy.btn_enabled
  /\ deploy.runs < MaxRuns
  /\ deploy' = [deploy EXCEPT !.btn_enabled = FALSE,
                              !.runs = @ + 1,
                              !.pc = "dirs",
                              !.download_urls = <<>>,
                              !.idx = 0,
                              !.git_zip_path_bound = FALSE,
                              !.download_success = FALSE,
                              !.attempts = <<>>,
                              !.all_failed_logged = FALSE,
                              !.finish_emits = <<>>,
                              !.path = "",
                              !.exc = ""]
  /\ DeployFrame

\* lines 66-74: create the working directories; os.makedirs can fail
MakeDirs ==
  /\ deploy.pc = "dirs"
  /\ \E ok \in BOOLEAN :
       deploy' = IF ok THEN [deploy EXCEPT !.pc = "speedtest"]
                 ELSE RunExcept(deploy, "dirs")
  /\ DeployFrame

\* lines 77-86: the speed test orders the mirrors
SpeedTest ==
  /\ deploy.pc = "speedtest"
  /\ \E heads \in [Range(deploy.mod_info_urls) -> 0..MaxTime] :
       deploy' = [deploy EXCEPT
                    !.pc = "download",
                    !.download_urls =
                       DownloadUrls(deploy.mod_info_urls,
                                    get_fastest_url(deploy.mod_info_urls, heads))]
  /\ DeployFrame

\* lines 87-111: the next mirror of the list
Attempt ==
  /\ deploy.pc = "download"
  /\ ~deploy.download_success
  /\ deploy.idx < Len(deploy.download_urls)
  /\ \E outcome \in {"connect", "open", "write", "ok"}, content \in Manifests :
       deploy' = DownloadAttempt(deploy, outcome, content)
  /\ DeployFrame

\* lines 102, 113-114: the loop is left by break or at the end of the list
EndDownload ==
  /\ deploy.pc = "download"
  /\ deploy.download_success \/ deploy.idx = Len(deploy.download_urls)
  /\ deploy' = IF deploy.download_success
               THEN [deploy EXCEPT !.pc = "compare"]
               ELSE RunExcept(deploy, "download")
  /\ DeployFrame

\* lines 117-138
Compare ==
  /\ deploy.pc = "compare"
  /\ \E readable \in BOOLEAN : deploy' = CompareManifests(deploy, readable)
  /\ DeployFrame

\* lines 325-334: the slot connected to finish_signal
OnGitDeployFinish ==
  /\ deploy.pending # <<>>
  /\ deploy' = IF Head(deploy.pending)
               THEN [deploy EXCEPT !.pending = Tail(@), !.git_deployed = TRUE]
               ELSE [deploy EXCEPT !.pending = Tail(@), !.btn_enabled = TRUE]
  /\ DeployFrame

NextDeploy ==
  \/ StartUpdateFlow
  \/ MakeDirs
  \/ SpeedTest
  \/ Attempt
  \/ EndDownload
  \/ Compare
  \/ OnGitDeployFinish

SpecDeploy == InitDeploy /\ [][NextDeploy]_vars

----------------------------------------------------------------------------
(* Vocabulary of the properties *)

Records == Range(config.all_mod_files)

\* the calls of restore_split_file of the last run of mod_unsplit.py
RestoreCalls == {c \in Range(call) : c.file_info.is_split}

\* the calls that found no file at their destination
FreshCalls == {c \in RestoreCalls : ~c.pre_exists}

Chunks(c) == c.file_info.split_details.chunks

Dest(c) == PlainPath(TempDir, c.file_info.file_name)

VerifyEvents(c) == SelectSeq(c.events, LAMBDA e : e.op = "verify")

WriteEvents(c) == SelectSeq(c.events, LAMBDA e : e.op \in {"create", "append"})

\* fragments of file n on the disk
FragmentsOf(n) == {p \in DOMAIN fs : p.base = n /\ p.part # <<>>}

\* a size or hash measurement of the call failed, or its concatenation did
IoFailed(c) ==
  \/ c.outcome \in {"error", "raise"}
  \/ \E i \in DOMAIN c.events :
       LET e == c.events[i]
       IN  \/ e.op = "verify" /\ e.verdict \in {"size", "hash", "ok"} /\ e.actual_size = None
           \/ e.op = "verify" /\ e.verdict \in {"hash", "ok"} /\ e.actual_hash = None
           \/ e.op = "check" /\ (e.actual_size = None \/ e.actual_hash = None)

\* every hash of the record was computed when the manifest was built
HashesRecorded(file_info) ==
  /\ file_info.file_hash # None
  /\ \A ch \in Range(file_info.split_details.chunks) : ch.chunk_hash # None

\* the state of one chunk on the disk: missing before size before hash
Classify(ch) ==
  IF ~Exists(fs, ch.chunk_path) THEN "missing"
  ELSE IF Len(fs[ch.chunk_path]) # ch.chunk_size_bytes THEN "size"
  ELSE IF Md5(fs[ch.chunk_path]) # ch.chunk_hash THEN "hash"
  ELSE "ok"

\* the value restore_split_file returns for a verification failure or an I/O error
FailureResult == FALSE

----------------------------------------------------------------------------
(* Properties *)

\* C1: round trip.  When a file of any content was split without I/O failure
\* (every hash recorded), its fragments were left untouched, and
\* restore_split_file runs without I/O failure into a directory where the
\* target does not exist, the call returns success and the restored file is
\* byte-identical to the original: same bytes, same size, same hash.
C1_RoundTrip ==
  last = "batch" /\ tampersUsed = 0 =>
    \A c \in FreshCalls :
      HashesRecorded(c.file_info) /\ ~IoFailed(c) =>
        /\ c.result
        /\ Exists(fs, Dest(c))
        /\ fs[Dest(c)] = fs[c.file_info.file_path]
        /\ Len(fs[Dest(c)]) = c.file_info.file_size_bytes
        /\ Md5(fs[Dest(c)]) = c.file_info.file_hash

\* a file of three bytes, one over the chunk size, restored from two fragments
C1_Witness ==
  /\ last = "batch" /\ tampersUsed = 0
  /\ \E c \in FreshCalls :
       /\ c.result /\ ~IoFailed(c) /\ HashesRecorded(c.file_info)
       /\ c.file_info.file_size_bytes = CHUNK_SIZE + 1
       /\ Len(Chunks(c)) = 2
       /\ fs[Dest(c)] = fs[c.file_info.file_path]

\* C2: for a restore call whose destination did not exist at the start, at
\* return the destination exists iff the call returned success, and when it
\* exists its size and hash are the recorded size and hash of the record.
C2_DestIffSuccess ==
  last = "batch" =>
    \A c \in FreshCalls :
      /\ Exists(fs, Dest(c)) <=> c.result
      /\ Exists(fs, Dest(c)) =>
           /\ Len(fs[Dest(c)]) = c.file_info.file_size_bytes
           /\ Md5(fs[Dest(c)]) = c.file_info.file_hash

\* C3: when the verification of a chunk fails, restore_split_file returns
\* failure without creating the destination or writing to it; whenever the
\* destination is created, every chunk has been verified, and passed, first.
C3_VerifyBeforeWrite ==
  last = "batch" =>
    \A c \in FreshCalls :
      /\ (\E i \in DOMAIN c.events :
            c.events[i].op = "verify" /\ c.events[i].verdict # "ok")
           => /\ ~c.result
              /\ WriteEvents(c) = <<>>
              /\ ~Exists(fs, Dest(c))
      /\ \A j \in DOMAIN c.events :
           c.events[j].op \in {"create", "append"} =>
             /\ j > Len(Chunks(c))
             /\ \A i \in 1..Len(Chunks(c)) :
                  c.events[i].op = "verify" /\ c.events[i].verdict = "ok"

\* a fragment is missing, the call fails and has written nothing
C3_Witness ==
  /\ last = "batch" /\ tampersUsed = 1
  /\ \E c \in FreshCalls :
       /\ \E i \in DOMAIN c.events :
            c.events[i].op = "verify" /\ c.events[i].verdict = "missing"
       /\ ~c.result
       /\ ~Exists(fs, Dest(c))

\* C4: when split_large_file returns its failure result, no fragment of the
\* source file remains on the disk.
C4_NoFragmentAfterFailedSplit ==
  last \in {"build", "split"} =>
    \A n \in Range(FileNames) : splitLog[n] = "none" => FragmentsOf(n) = {}

\* C5: validate_chunks returns true iff every chunk record has an existing
\* fragment whose measured size is the recorded size and whose recomputed
\* hash is the recorded hash; a measurement is the on-disk value unless the
\* measurement fails, so without I/O failure the result is true iff every
\* fragment exists with the recorded size and the recorded hash.  A call
\* that a failed size lookup makes leave by an exception returns nothing.
C5_ValidateIff ==
  last = "batch" =>
    \A c \in FreshCalls :
      LET valid == c.outcome \notin {"invalid", "raise"}
          evs(ch) == {e \in Range(VerifyEvents(c)) : e.chunk_index = ch.chunk_index}
      IN  /\ valid <=> \A ch \in Range(Chunks(c)) :
                         /\ Exists(fs, ch.chunk_path)
                         /\ \E e \in evs(ch) :
                              /\ e.actual_size = ch.chunk_size_bytes
                              /\ e.actual_hash = ch.chunk_hash
          /\ \A ch \in Range(Chunks(c)) :
               \A e \in evs(ch) :
                 Exists(fs, ch.chunk_path) =>
                   /\ e.actual_size \in {None, Len(fs[ch.chunk_path])}
                   /\ e.actual_hash \in {None, Md5(fs[ch.chunk_path])}
          /\ ~IoFailed(c) => (valid <=> \A ch \in Range(Chunks(c)) : Classify(ch) = "ok")

\* a fragment was changed keeping its length and validate_chunks returned false
C5_Witness ==
  /\ last = "batch" /\ tampersUsed = 1
  /\ \E c \in FreshCalls :
       /\ c.outcome = "invalid" /\ ~IoFailed(c) /\ HashesRecorded(c.file_info)
       /\ \E ch \in Range(Chunks(c)) : Classify(ch) = "hash"

\* C6: validate_chunks checks every chunk, also after a chunk has failed: its
\* report has one entry per chunk, in index order, and the entry of a chunk
\* tells the state of that chunk alone, with one kind of failure per chunk
\* (missing before size before hash).  Without I/O failure the entry is the
\* state of the chunk on the disk, so a fragment changed in one byte is
\* reported as a hash mismatch, and no other chunk is reported because of it.
\* The exception of line 37 for a chunk whose size cannot be read ends the
\* loop with the later chunks unchecked.
C6_EveryChunkReported ==
  last = "batch" =>
    \A c \in FreshCalls :
      LET sorted == SortByIndex(Chunks(c))
          report == VerifyEvents(c)
      IN  /\ Len(report) = Len(sorted)
          /\ \A i \in DOMAIN sorted :
               LET ch == sorted[i]
                   e == report[i]
               IN  /\ e.chunk_index = ch.chunk_index
                   /\ e.verdict = "missing" <=> ~Exists(fs, ch.chunk_path)
                   /\ e.verdict = "size" <=>
                        Exists(fs, ch.chunk_path) /\ e.actual_size # ch.chunk_size_bytes
                   /\ e.verdict = "hash" <=>
                        /\ Exists(fs, ch.chunk_path)
                        /\ e.actual_size = ch.chunk_size_bytes
                        /\ e.actual_hash # ch.chunk_hash
                   /\ ~IoFailed(c) => e.verdict = Classify(ch)
          /\ ~IoFailed(c) /\ HashesRecorded(c.file_info) /\ tampersUsed <= 1 =>
               Cardinality({i \in DOMAIN report : report[i].verdict # "ok"}) <= 1

\* C7: a restore call that finds its destination present leaves the
\* destination's content as it was and reads and verifies no fragment: the
\* call logs no operation and the disk after it is the disk before it.
C7_ExistingDestUntouched ==
  [][last' = "batch" =>
       LET declined == {x \in Range(call') : x.file_info.is_split /\ x.pre_exists}
       IN  /\ \A c \in declined :
                /\ c.events = <<>>
                /\ Exists(fs, Dest(c)) /\ Exists(fs', Dest(c))
                /\ fs'[Dest(c)] = fs[Dest(c)]
                /\ \A ch \in Range(Chunks(c)) :
                     /\ Exists(fs', ch.chunk_path) <=> Exists(fs, ch.chunk_path)
                     /\ Exists(fs, ch.chunk_path) => fs'[ch.chunk_path] = fs[ch.chunk_path]
           /\ (declined # {} /\ \A x \in Range(call') : x.file_info.is_split => x.pre_exists)
                => fs' = fs]_vars

\* the second call after a successful restore
C7_Witness ==
  /\ last = "batch" /\ faultsUsed = 0 /\ tampersUsed = 0
  /\ \E c \in RestoreCalls :
       /\ c.pre_exists /\ c.outcome = "exists"
       /\ fs[Dest(c)] = fs[c.file_info.file_path]

\* C8: a restore call that finds its destination present returns a result a
\* caller can tell from the failure result, and the batch driver counts as
\* failed only the files that failed, not the files it declined to restore.
C8_DeclineIsNotFailure ==
  last = "batch" =>
    /\ \A c \in RestoreCalls : c.outcome = "exists" => c.result # FailureResult
    /\ stats.fail = Cardinality({i \in DOMAIN call :
                                   /\ ~call[i].result
                                   /\ call[i].outcome \notin {"exists", "raise"}})

\* C9: after a successful split, the recorded sizes of the chunks add up to
\* the recorded size of the original file.
C9_ChunkSum ==
  \A r \in Records :
    r.is_split =>
      SumSeq([i \in DOMAIN r.split_details.chunks |->
                r.split_details.chunks[i].chunk_size_bytes])
        = r.split_details.original_file_size_bytes

\* a file of three bytes split into a full chunk and a last chunk of one byte
C9_Witness ==
  \E r \in Records :
    /\ r.is_split
    /\ r.split_details.original_file_size_bytes = CHUNK_SIZE + 1
    /\ Len(r.split_details.chunks) = 2
    /\ r.split_details.chunks[2].chunk_size_bytes = 1

\* C10: the manifest of a build holds no record whose hash is absent and no
\* record of a file over the threshold whose split failed.
C10_FailedFilesExcluded ==
  last = "build" /\ config.written =>
    \A r \in Records :
      /\ r.file_hash # None
      /\ r.file_size_bytes > SPLIT_THRESHOLD => r.is_split

\* C11: a failure while processing one file of the build (size lookup, hash,
\* split) never stops the walk: every tracked file is processed to the end,
\* and every file processed without failure is in the manifest the run writes.
C11_FaultIsolation ==
  last = "build" =>
    /\ \A n \in Range(FileNames) : splitLog[n] \in {"ok", "none", "unsplit"}
    /\ config.written =>
         \A n \in Range(FileNames) :
           splitLog[n] \in {"ok", "unsplit"} => \E r \in Records : r.file_name = n

\* C15: when a restore fails its verification (a chunk fails, or the written
\* file fails the size or hash check), no fragment of the chunk set of the
\* record is left on the disk.
C15_FragmentsDeletedOnFailure ==
  last = "batch" =>
    \A c \in FreshCalls :
      c.outcome \in {"invalid", "size", "hash"} =>
        \A ch \in Range(Chunks(c)) : ~Exists(fs, ch.chunk_path)

\* C17: in the manifest of a build a record carries split details iff it is
\* flagged split; a file over the threshold is recorded split, a file at or
\* under the threshold is recorded unsplit and has no fragment on the disk.
C17_ChunkedIffDetails ==
  last = "build" /\ config.written =>
    \A r \in Records :
      /\ ("split_details" \in DOMAIN r) <=> r.is_split
      /\ r.file_size_bytes > SPLIT_THRESHOLD => r.is_split
      /\ r.file_size_bytes <= SPLIT_THRESHOLD =>
           ~r.is_split /\ FragmentsOf(r.file_name) = {}

\* C20: a split record of a file of S bytes has N chunk records, N the least
\* number with N * CHUNK_SIZE >= S; their indices are 1..N in list order,
\* every chunk but the last has CHUNK_SIZE bytes, the last between 1 and
\* CHUNK_SIZE, and the recorded chunk count is N (no chunk for S = 0).
C20_ChunkCountAndIndices ==
  \A r \in Records :
    r.is_split =>
      LET sd == r.split_details
          S == sd.original_file_size_bytes
          N == Len(sd.chunks)
      IN  /\ N * CHUNK_SIZE >= S /\ (N - 1) * CHUNK_SIZE < S
          /\ sd.chunk_count = N
          /\ \A i \in 1..N :
               /\ sd.chunks[i].chunk_index = i
               /\ i < N => sd.chunks[i].chunk_size_bytes = CHUNK_SIZE
               /\ i = N => sd.chunks[i].chunk_size_bytes \in 1..CHUNK_SIZE

\* a build that split a file of four bytes into two full chunks, and a direct
\* split of an empty file into no chunk
C20_Witness ==
  \E r \in Records :
    /\ r.is_split
    /\ \/ /\ last = "build"
          /\ r.split_details.original_file_size_bytes = 2 * CHUNK_SIZE
          /\ r.split_details.chunk_count = 2
          /\ r.split_details.chunks[2].chunk_index = 2
          /\ r.split_details.chunks[2].chunk_size_bytes = CHUNK_SIZE
       \/ /\ last = "split"
          /\ r.split_details.original_file_size_bytes = 0
          /\ r.split_details.chunks = <<>>

\* the number a sequence of decimal digits writes
RECURSIVE DecValue(_)
DecValue(ds) ==
  IF ds = <<>> THEN 0 ELSE 10 * DecValue(SubSeq(ds, 1, Len(ds) - 1)) + ds[Len(ds)]

\* C18: the fragment of chunk i of a split is named <file name>.part<NN>, NN
\* the decimal digits of i padded with zeros to two digits (more digits, no
\* leading zero, from 100 on), and two chunks of one split never get the
\* same path, whatever the chunk count.
C18_FragmentNaming ==
  \A i \in DOMAIN names :
    /\ names[i].base = names[1].base /\ names[i].dir = names[1].dir
    /\ \A k \in DOMAIN names[i].part : names[i].part[k] \in 0..9
    /\ DecValue(names[i].part) = i
    /\ Len(names[i].part) >= 2
    /\ Len(names[i].part) > 2 => names[i].part[1] # 0
    /\ \A j \in DOMAIN names : j # i => names[j] # names[i]

\* a split of more than a hundred chunks: part01, part10, part100, part101
C18_Witness ==
  /\ Len(names) > 100
  /\ names[1].part = <<0, 1>>
  /\ names[10].part = <<1, 0>>
  /\ names[100].part = <<1, 0, 0>>
  /\ names[101].part = <<1, 0, 1>>

\* the chunk number a fragment path carries
IndexOfPath(ch) == DecValue(ch.chunk_path.part)

\* some chunk record carries an index that is not the number of its fragment
Renumbered(file_info) ==
  \E ch \in Range(file_info.split_details.chunks) : ch.chunk_index # IndexOfPath(ch)

\* the chunk records in ascending index (indices 1..N, each once)
ByIndex(chunks) ==
  [i \in 1..Len(chunks) |-> CHOOSE ch \in Range(chunks) : ch.chunk_index = i]

\* the fragments of the chunk records hold pairwise different bytes
DistinctContents(chunks) ==
  \A i, j \in DOMAIN chunks :
    i # j => fs[chunks[i].chunk_path] # fs[chunks[j].chunk_path]

\* the bytes of the fragments, concatenated in ascending index
BytesByIndex(chunks) ==
  Concat([i \in 1..Len(chunks) |-> fs[ByIndex(chunks)[i].chunk_path]])

\* C16 as stated: when the chunks of a record hold different contents and are
\* concatenated in an order other than that of the split (the index fields of
\* two chunk records were exchanged), the restore fails on the hash of the
\* whole file and leaves no output file.
C16_OrderSensitivity ==
  last = "batch" =>
    \A c \in FreshCalls :
      Renumbered(c.file_info) /\ DistinctContents(Chunks(c)) =>
        /\ ~c.result
        /\ c.outcome = "hash"
        /\ ~Exists(fs, Dest(c))

\* C16 amended: the same, for the orders whose concatenation is not, byte
\* for byte, the original file.
C16_OrderSensitivityAmended ==
  last = "batch" =>
    \A c \in FreshCalls :
      /\ Renumbered(c.file_info)
      /\ DistinctContents(Chunks(c))
      /\ BytesByIndex(Chunks(c)) # fs[c.file_info.file_path]
      => /\ ~c.result
         /\ c.outcome = "hash"
         /\ ~Exists(fs, Dest(c))

\* three fragments, the indices of the first and the last exchanged: every
\* fragment passes its verification, the written file fails its hash check
C16_Witness ==
  /\ last = "batch"
  /\ \E c \in FreshCalls :
       /\ Len(Chunks(c)) = 3
       /\ Chunks(c)[1].chunk_index = 3 /\ Chunks(c)[3].chunk_index = 1
       /\ DistinctContents(Chunks(c))
       /\ \A i \in DOMAIN VerifyEvents(c) : VerifyEvents(c)[i].verdict = "ok"
       /\ c.outcome = "hash"
       /\ ~Exists(fs, Dest(c))

\* C19: the restore of a record whose chunk list is in any order (each chunk
\* record keeping its own index) has the result, and leaves the disk, of the
\* restore of the same record with the list in ascending index: it succeeds
\* with the same output bytes.
C19_OrderIndependence ==
  [][last' = "batch" =>
       \A i \in DOMAIN call' :
         LET c == call'[i]
             ascending == [c.file_info EXCEPT !.split_details.chunks = ByIndex(@)]
             ref == restore_split_file(fs, ascending, TempDir, {})
         IN  c.file_info.is_split /\ ~Renumbered(c.file_info) =>
               /\ c.result = ref.result
               /\ c.outcome = ref.outcome
               /\ fs' = ref.fs]_vars

\* three chunk records listed last first, restored to the original bytes
C19_Witness ==
  /\ last = "batch"
  /\ \E c \in FreshCalls :
       /\ Len(Chunks(c)) = 3
       /\ Chunks(c)[1].chunk_index = 3 /\ Chunks(c)[3].chunk_index = 1
       /\ ~Renumbered(c.file_info)
       /\ c.result
       /\ fs[Dest(c)] = fs[c.file_info.file_path]
       /\ fs[Dest(c)][1] # fs[Dest(c)][5]

\* the names a list of inconsistent_mods holds
Listed(list) == {list[i].file_name : i \in DOMAIN list}

\* the lists of inconsistent_mods a record appears in
ListsOf(mod_info) ==
  {l \in {"missing_files", "size_mismatch", "hash_mismatch", "error_files"} :
     RecordName(mod_info) \in Listed(drift.inconsistent_mods[l])}

\* the local files the run listed, and the first one that carries a name
LocalFiles == Range(drift.all_local_files)

FirstNamed(name) ==
  SelectSeq(drift.all_local_files, LAMBDA f : f.file_name = name)[1]

HashMatched(mod_info) == \E f \in LocalFiles : f.hash = mod_info.file_hash

NameMatched(mod_info) == \E f \in LocalFiles : f.file_name = RecordName(mod_info)

\* C12: a record whose recorded hash is the hash of some local file is in
\* none of the lists missing_files, size_mismatch, hash_mismatch and
\* error_files, also when a local file of another content carries its name.
C12_HashMatchIsConsistent ==
  last = "validate" /\ drift.status = "ok" =>
    \A r \in Records : HashMatched(r) => ListsOf(r) = {}

\* a.jar was copied to c.jar and then changed: the record of a.jar matches
\* c.jar by hash and is in no list
C12_Witness ==
  /\ last = "validate" /\ drift.status = "ok"
  /\ \E r \in Records :
       /\ \E f \in LocalFiles : f.hash = r.file_hash /\ f.file_name # RecordName(r)
       /\ \E f \in LocalFiles :
            f.file_name = RecordName(r) /\ f.hash # r.file_hash /\ f.hash # None
       /\ \A f \in LocalFiles : f.file_name = RecordName(r) => f.hash # r.file_hash
       /\ ListsOf(r) = {}

\* C13: a record with no hash match and a name match is in at most one of
\* the lists: in size_mismatch alone when the size of the local file differs,
\* else in hash_mismatch alone when its hash differs, else in none; no record
\* is in both size_mismatch and hash_mismatch.
C13_OneClassPerRecord ==
  last = "validate" /\ drift.status = "ok" =>
    \A r \in Records :
      /\ ~({"size_mismatch", "hash_mismatch"} \subseteq ListsOf(r))
      /\ ~HashMatched(r) /\ NameMatched(r) =>
           LET f == FirstNamed(RecordName(r))
           IN  f.size_bytes # None /\ f.hash # None =>
                 ListsOf(r) = IF f.size_bytes # r.file_size_bytes THEN {"size_mismatch"}
                              ELSE IF f.hash # r.file_hash THEN {"hash_mismatch"}
                              ELSE {}

\* C14: a local file is in extra_local_files iff its hash is not in the hash
\* set of the manifest and its name is not in the name set of the manifest.
C14_ExtraIff ==
  last = "validate" /\ drift.status = "ok" =>
    \A f \in LocalFiles :
      (\E i \in DOMAIN drift.extra_local_files :
         drift.extra_local_files[i].file_path = f.file_path)
      <=> /\ f.hash \notin ({r.file_hash : r \in Records} \ {None})
          /\ f.file_name \notin {RecordName(r) : r \in Records}

----------------------------------------------------------------------------
(* Absent hashes *)

\* the chunk record of the call with the index of a line of its report
ChunkOf(c, e) == CHOOSE ch \in Range(Chunks(c)) : ch.chunk_index = e.chunk_index

\* C21: no hash is accepted vacuously.  A chunk passes validate_chunks only
\* when its recorded hash is present and the hash computed from the bytes of
\* the fragment on the disk equals it, and restore_split_file returns success
\* only when the recorded hash of the file is present and the hash computed
\* from the restored file equals it: an absent recorded hash met by a failed
\* hash computation is no match.
C21_NoVacuousHashMatch ==
  last = "batch" =>
    \A c \in FreshCalls :
      /\ \A e \in Range(VerifyEvents(c)) :
           e.verdict = "ok" =>
             /\ ChunkOf(c, e).chunk_hash # None
             /\ e.actual_hash # None
             /\ e.actual_hash = Md5(fs[ChunkOf(c, e).chunk_path])
             /\ e.actual_hash = ChunkOf(c, e).chunk_hash
      /\ c.result =>
           /\ c.file_info.file_hash # None
           /\ \E e \in Range(c.events) :
                /\ e.op = "check"
                /\ e.actual_hash # None
                /\ e.actual_hash = c.file_info.file_hash

----------------------------------------------------------------------------
(* The update flow *)

\* the download loop of the present run was left
LoopLeft == deploy.pc \in {"compare", "returned"} /\ deploy.exc # "dirs"

\* C22: mirror fallback.  The mirrors are tried in the order of the list and
\* none is tried after one has succeeded; a failed attempt leaves no partial
\* file; after a failed attempt, whatever its reason and also on the first
\* mirror, the next mirror of the list is tried, so the loop is left after a
\* failure, and the download declared failed, only when every mirror of the
\* list has been tried.
C22_MirrorFallback ==
  deploy.pc \in {"download", "compare", "returned"} =>
    LET tried == deploy.attempts
        urls == deploy.download_urls
    IN  /\ Len(tried) <= Len(urls)
        /\ \A i \in DOMAIN tried : tried[i].url = urls[i]
        /\ \A i \in DOMAIN tried : tried[i].outcome = "ok" => i = Len(tried)
        /\ deploy.temp # Partial
        /\ LoopLeft /\ tried # <<>> /\ tried[Len(tried)].outcome # "ok" =>
             Len(tried) = Len(urls)
        /\ LoopLeft /\ ~deploy.download_success => Len(tried) = Len(urls)

\* C23: every execution of run emits finish_signal exactly once before it
\* returns, whatever path it took: local manifest up to date, local manifest
\* outdated, no local manifest yet, or a failure.
C23_FinishEmittedOnce ==
  deploy.pc = "returned" => Len(deploy.finish_emits) = 1

=============================================================================
